---- MODULE Spec2Model ----
(***************************************************************************)
(* Model of the audio session / playback controller of src/index.tsx:      *)
(* the PromptDj element (session lifecycle, decode -> schedule -> play     *)
(* pipeline, playback state machine, throttled control plane), the         *)
(* SettingsController it embeds and the part of the dashboard that feeds   *)
(* it agent output.                                                        *)
(*                                                                         *)
(* Times are milliseconds.  `now' is the output clock                      *)
(* (audioContext.currentTime * 1000); Date.now() is Epoch + now.           *)
(* Weights and config values are hundredths (0.01 is 1, 1.0 is 100).       *)
(*                                                                         *)
(* Every handler of the source is an operator from a state record to a    *)
(* state record, so that a handler which calls other handlers (or raises  *)
(* a synchronous DOM event handled elsewhere) is their composition.  An   *)
(* action applies one handler, or one continuation of an async handler    *)
(* after an await, to the current state.                                   *)
(***************************************************************************)
EXTENDS Integers, Sequences, FiniteSets, TLC

VARIABLES
    now,                 \* output clock, ms
    playbackState,       \* PromptDj.playbackState
    nextStartTime,       \* PromptDj.nextStartTime (ms), 0 = not primed
    connectionError,     \* PromptDj.connectionError
    session,             \* PromptDj.session: 0 = undefined, else a session id
    filteredPrompts,     \* PromptDj.filteredPrompts
    userPrompts,         \* PromptDj.userPrompts, in Map insertion order
    nextUserPromptId,    \* PromptDj.nextUserPromptId
    currentLyriaPrompts, \* PromptDj.currentLyriaPrompts
    lastCall,            \* the lastCall of each throttle() closure
    config,              \* SettingsController.config
    autoField,           \* SettingsController.autoDensity / autoBrightness
    lastDefined,         \* SettingsController.lastDefinedDensity / ...Brightness
    mcpPrompt,           \* dashboard mcp.lyria_output.current_prompt
    conns,               \* every connect() made so far: status and awaiting caller
    decoding,            \* chunks whose decodeAudioData is awaited
    chunkSeq,            \* number of audio chunk messages delivered so far
    timers,              \* pending setTimeout callbacks
    pendingSends,        \* unsettled setWeightedPrompts / setMusicGenerationConfig calls
    lastCmd,             \* last transport command each session received
    sentPrompts,         \* last list passed to session.setWeightedPrompts
    sentConfig,          \* last config passed to session.setMusicGenerationConfig
    emitted,             \* detail of the last settings-changed event
    stored,              \* localStorage item 'userPrompts': << >> = null, else << text >>
    sim,                 \* the dashboard's simulation: flags, interval timers, cycles, agents
    obs                  \* observations of what handlers did (history only)

vars == << now, playbackState, nextStartTime, connectionError, session,
           filteredPrompts, userPrompts, nextUserPromptId, currentLyriaPrompts,
           lastCall, config, autoField, lastDefined, mcpPrompt, conns, decoding,
           chunkSeq, timers, pendingSends, lastCmd, sentPrompts, sentConfig,
           stored, sim,
           emitted, obs >>

----------------------------------------------------------------------------
(* Program constants *)

bufferTime == 2          \* seconds of lookahead
delay == 200             \* throttle interval of both control channels, ms
resetDelay == 100        \* delay before handleReset resumes, ms
fillerWeight == 1        \* weight 0.01 of the "silence" filler
defaultAuto == 50        \* the `?? 0.5' used when no value was ever defined

(* Bounds of the model *)

MaxTime == 4000          \* the clock stops advancing here
MaxSessions == 2         \* connect() calls in one behaviour
MaxChunks == 3           \* audio chunk messages in one behaviour
MaxDecoding == 2         \* decodes awaited at the same time
MaxUserPrompts == 1      \* user prompts ever added
MaxInflight == 1         \* unsettled sends remembered per channel
Epoch == 1000            \* Date.now() when the output clock reads 0

Undef == -1               \* a key whose value is undefined
Absent == -2              \* a key that is not in the object; a time not yet set

Channels == {"prompts", "config"}
Fields == {"temperature", "seed", "density", "brightness"}
AutoFields == {"density", "brightness"}
Texts == {"Funk", "Dubstep"}
Weights == {0, 100}
Values == {30, 80}
ChunkDurations == {1000, 2000}
CoarseSteps == {1000}
FineSteps == {100}
MaxFineTime == 300       \* the clock stops here when it advances in fine steps
MaxResetTime == 100      \* the clock stops here when it advances for a reset timer
MaxRecovery == 6         \* longest sequence of recovery steps that is tried
MaxSimTime == 1500       \* the clock stops here while the simulation is observed
MaxCycles == 2           \* simulation cycles started in one behaviour
SessionIds == 1 .. MaxSessions

Min(a, b) == IF a < b THEN a ELSE b

WP(t, w) == [text |-> t, weight |-> w]

----------------------------------------------------------------------------
(* The state record handlers work on *)

Cur ==
    [ now |-> now, playbackState |-> playbackState,
      nextStartTime |-> nextStartTime, connectionError |-> connectionError,
      session |-> session, filteredPrompts |-> filteredPrompts,
      userPrompts |-> userPrompts, nextUserPromptId |-> nextUserPromptId,
      currentLyriaPrompts |-> currentLyriaPrompts, lastCall |-> lastCall,
      config |-> config, autoField |-> autoField, lastDefined |-> lastDefined,
      mcpPrompt |-> mcpPrompt, conns |-> conns, decoding |-> decoding,
      chunkSeq |-> chunkSeq, timers |-> timers, pendingSends |-> pendingSends,
      lastCmd |-> lastCmd, sentPrompts |-> sentPrompts,
      sentConfig |-> sentConfig, emitted |-> emitted, stored |-> stored,
      sim |-> sim,
      obs |-> [obs EXCEPT !.toast = {}, !.cmds = {}, !.dropped = ""] ]

\* dispatchToast: a notice is shown
Toast(s, text) == [s EXCEPT !.obs.toast = @ \cup {text}]

\* history: a call of a method of the current session
Cmd(s, c) == [to |-> s.session, cmd |-> c, connectionError |-> s.connectionError]

Becomes(s) ==
    /\ now' = s.now
    /\ playbackState' = s.playbackState
    /\ nextStartTime' = s.nextStartTime
    /\ connectionError' = s.connectionError
    /\ session' = s.session
    /\ filteredPrompts' = s.filteredPrompts
    /\ userPrompts' = s.userPrompts
    /\ nextUserPromptId' = s.nextUserPromptId
    /\ currentLyriaPrompts' = s.currentLyriaPrompts
    /\ lastCall' = s.lastCall
    /\ config' = s.config
    /\ autoField' = s.autoField
    /\ lastDefined' = s.lastDefined
    /\ mcpPrompt' = s.mcpPrompt
    /\ conns' = s.conns
    /\ decoding' = s.decoding
    /\ chunkSeq' = s.chunkSeq
    /\ timers' = s.timers
    /\ pendingSends' = s.pendingSends
    /\ lastCmd' = s.lastCmd
    /\ sentPrompts' = s.sentPrompts
    /\ sentConfig' = s.sentConfig
    /\ emitted' = s.emitted
    /\ stored' = s.stored
    /\ sim' = s.sim
    /\ obs' = s.obs

UserActions == {"handlePlayPause", "handleReset"}

\* history kept for the step in which a handler named ev takes the current
\* state to s: the handler if the user started it, whether the connection broke and no connect()
\* was issued since, whether playback was cancelled and the user has not
\* pressed play or reset since
Noted(ev, s) ==
    LET issued == \E i \in DOMAIN conns :
                      conns[i].status = "unused" /\ s.conns[i].status # "unused"
        broke == ev \in {"onerror", "onclose:unclean"}
        stop == ev = "handlePlayPause" /\ playbackState = "loading"
    IN  [s EXCEPT !.obs.event = IF ev \in UserActions THEN ev ELSE "",
                  !.obs.faulted = IF broke THEN TRUE
                                  ELSE IF issued THEN FALSE ELSE @,
                  !.obs.cancelled =
                      IF broke \/ stop THEN s.playbackState = "stopped"
                      ELSE IF ev \in {"handlePlayPause", "handleReset"}
                      THEN FALSE ELSE @]

\* one handler runs
Does(ev, s) == Becomes(Noted(ev, s))

\* the connection of session id changes its status
Status(s, id, st) == [s EXCEPT !.conns[id].status = st]

----------------------------------------------------------------------------
(* SettingsController *)

IsDefined(v) == v # Undef /\ v # Absent

\* {...a, ...b}: every key present in b, also with value undefined, overrides a
Spread(a, b) == [k \in Fields |-> IF b[k] # Absent THEN b[k] ELSE a[k]]

defaultConfig ==
    [temperature |-> 110, seed |-> Absent, density |-> Absent, brightness |-> Absent]

\* x ?? 0.5
OrDefault(v) == IF IsDefined(v) THEN v ELSE defaultAuto

AutoToggleValueForgetful(checked, last) == IF checked THEN Undef ELSE defaultAuto

\* the value config.f gets when the auto checkbox of f changes to `checked'
AutoToggleValue(checked, last) == IF checked THEN Undef ELSE OrDefault(last)

\* the config dispatchSettingsChange puts in the settings-changed event
ConfigToSend(cfg, auto) ==
    [k \in Fields |-> IF k \in AutoFields /\ auto[k] THEN Undef ELSE cfg[k]]

ThrottlePassesEager(t, last) == t - last > 0

\* throttle(): does a call at Date.now() = t go through?
ThrottlePasses(t, last) == t - last >= delay

DateNow(s) == Epoch + s.now

Connected(s) == s.session # 0 /\ ~s.connectionError

\* lines 1716-1724: the list setSessionPrompts builds from its argument
UserWPsUnfiltered(s) ==
    LET act == SelectSeq(s.userPrompts, LAMBDA p : p.weight > 0)
    IN  [i \in 1 .. Len(act) |-> WP(act[i].text, act[i].weight)]

UserWPs(s) ==
    LET act == SelectSeq(s.userPrompts,
                   LAMBDA p : p.weight > 0 /\ p.text \notin s.filteredPrompts)
    IN  [i \in 1 .. Len(act) |-> WP(act[i].text, act[i].weight)]

WithFiller(all) == IF Len(all) = 0 THEN << WP("silence", fillerWeight) >> ELSE all

AllPrompts(s, prompts) == WithFiller(prompts \o UserWPs(s))

\* what a call of a throttled channel asks to be sent
Requested(s, ch, arg) == IF ch = "prompts" THEN AllPrompts(s, arg) ELSE arg

internalPauseAudio(s) ==
    IF ~Connected(s) THEN s
    ELSE [s EXCEPT !.lastCmd[s.session] = "pause",
                   !.playbackState = "paused",
                   !.nextStartTime = 0,
                   !.obs.cmds = @ \cup {Cmd(s, "pause")},
                   !.obs.sched = << >>]

\* history: the wrapped function of channel ch runs at Date.now() = t
NoteInvoked(s, ch) ==
    LET t == DateNow(s)
        before == s.obs.invokedAt[ch]
    IN  [s EXCEPT !.obs.invokedAt[ch] = t,
                  !.obs.gap[ch] = IF before = Absent THEN Absent ELSE t - before]

\* history: value v is passed to the session on channel ch
NoteDispatched(s, ch, v) ==
    [s EXCEPT !.obs.win[ch].dispatches = Min(@ + 1, 2),
              !.obs.win[ch].sent = << v >>]

AllZero(ps) == \A i \in 1 .. Len(ps) : ps[i].weight = 0

\* the async function wrapped by setSessionPrompts, up to its await
sessionPromptsBody(s, prompts) ==
    LET s1 == NoteInvoked(s, "prompts")
        all == AllPrompts(s1, prompts)
    IN  IF ~Connected(s1) THEN s1
        ELSE NoteDispatched(
                 [s1 EXCEPT !.sentPrompts = << all >>,
                            !.obs.cmds = @ \cup {Cmd(s1, "setWeightedPrompts")},
                            !.pendingSends["prompts"] = Min(@ + 1, MaxInflight),
                            !.obs.sendCase =
                                [allZero |-> AllZero(prompts)
                                             /\ AllZero(s1.userPrompts),
                                 filtered |-> s1.filteredPrompts]],
                 "prompts", all)

\* history: for density and brightness, the last explicitly defined value
\* if the field is manual, Absent if it is auto
ManualValues(s) ==
    [f \in AutoFields |-> IF s.autoField[f] THEN Absent ELSE s.lastDefined[f]]

\* the async function wrapped by updateLyriaConfig, up to its await
lyriaConfigBody(s, cfg) ==
    LET s1 == NoteInvoked(s, "config")
    IN  IF ~Connected(s1) THEN s1
        ELSE NoteDispatched(
                 [s1 EXCEPT !.sentConfig = << cfg >>,
                            !.obs.cmds = @ \cup
                                {Cmd(s1, "setMusicGenerationConfig")},
                            !.obs.cfgAtSend =
                                ConfigToSend(s1.config, s1.autoField),
                            !.obs.manualAtSend = ManualValues(s1),
                            !.pendingSends["config"] = Min(@ + 1, MaxInflight)],
                 "config", cfg)

\* history: a call of the throttled function of channel ch asking for v
NoteCalled(s, ch, v) ==
    LET t == DateNow(s)
        w == s.obs.win[ch]
        fresh == w.start = Absent \/ t - w.start >= delay
    IN  IF fresh
        THEN [s EXCEPT !.obs.win[ch] =
                 [start |-> t, calls |-> 1, asked |-> << v >>, dispatches |-> 0,
                  sent |-> << >>, connected |-> Connected(s)]]
        ELSE [s EXCEPT !.obs.win[ch].calls = Min(@ + 1, 2),
                       !.obs.win[ch].asked = << v >>,
                       !.obs.win[ch].connected = @ /\ Connected(s)]

\* the closure throttle() returns, for the two channels
throttle(s, ch, arg) ==
    LET s1 == NoteCalled(s, ch, Requested(s, ch, arg))
        t == DateNow(s1)
    IN  IF ThrottlePasses(t, s1.lastCall[ch])
        THEN LET s2 == IF ch = "prompts" THEN sessionPromptsBody(s1, arg)
                                         ELSE lyriaConfigBody(s1, arg)
             IN  [s2 EXCEPT !.lastCall[ch] = t]
        ELSE s1

setSessionPrompts(s, prompts) == throttle(s, "prompts", prompts)

updateLyriaConfig(s, cfg) == throttle(s, "config", cfg)

\* dashboard: merges the user's config into mcp.lyria_output.current_prompt
handleUserLyriaConfigOverride(s, detail) ==
    [s EXCEPT !.mcpPrompt.config = Spread(@, detail)]

handleSettingsChanged(s, detail) ==
    handleUserLyriaConfigOverride(updateLyriaConfig(s, detail), detail)

dispatchSettingsChange(s) ==
    LET detail == ConfigToSend(s.config, s.autoField)
    IN  handleSettingsChanged(
            [s EXCEPT !.emitted = << [detail |-> detail, auto |-> s.autoField] >>],
            detail)

setConfig(s, newConfig) ==
    [s EXCEPT !.config = Spread(s.config, newConfig),
              !.autoField = [f \in AutoFields |->
                  IF IsDefined(newConfig[f]) THEN FALSE ELSE s.autoField[f]],
              !.lastDefined = [f \in AutoFields |->
                  IF IsDefined(newConfig[f]) THEN newConfig[f]
                  ELSE s.lastDefined[f]],
              !.obs.trip = [f \in AutoFields |->
                  IF IsDefined(newConfig[f]) THEN [stage |-> 0, x |-> Absent]
                  ELSE s.obs.trip[f]]]

resetToDefaults(s) ==
    dispatchSettingsChange(
        [s EXCEPT !.config = defaultConfig,
                  !.autoField = [f \in AutoFields |-> TRUE],
                  !.lastDefined = [f \in AutoFields |-> Undef],
                  !.obs.trip = [f \in AutoFields |-> [stage |-> 0, x |-> Absent]]])

\* handleInputChange for the checkbox auto-<f>
inputAuto(s, f, checked) ==
    LET tr == s.obs.trip[f]
        stage == IF checked /\ tr.stage = 1 THEN 2
                 ELSE IF ~checked /\ tr.stage = 2 THEN 3
                 ELSE 0
    IN  dispatchSettingsChange(
            [s EXCEPT !.autoField[f] = checked,
                      !.config[f] = AutoToggleValue(checked, s.lastDefined[f]),
                      !.obs.trip[f] = [stage |-> stage,
                                       x |-> IF stage = 0 THEN Absent ELSE tr.x]])

\* handleInputChange for the sliders of density and brightness
inputAutoField(s, f, value) ==
    dispatchSettingsChange(
        [s EXCEPT !.lastDefined[f] = value,
                  !.config[f] = IF ~s.autoField[f] THEN value ELSE @,
                  !.obs.trip[f] = IF ~s.autoField[f]
                                  THEN [stage |-> 1, x |-> value]
                                  ELSE [stage |-> 0, x |-> Absent]])

\* handleInputChange for every other input
inputPlain(s, key, value) ==
    dispatchSettingsChange([s EXCEPT !.config[key] = value])

updateLyriaPrompts(s, p) ==
    LET s1 == [s EXCEPT !.currentLyriaPrompts = p.weightedPrompts]
        s2 == setSessionPrompts(s1, p.weightedPrompts)
        s3 == setConfig(s2, p.config)
    IN  updateLyriaConfig(s3, p.config)

----------------------------------------------------------------------------
(* PromptDj: transport commands *)

internalLoadAudio(s) ==
    IF ~Connected(s)
    THEN Toast([s EXCEPT !.playbackState = "stopped"], "Cannot play")
    ELSE [s EXCEPT !.lastCmd[s.session] = "play",
                   !.obs.cmds = @ \cup {Cmd(s, "play")},
                   !.playbackState = "loading"]

internalStopAudioKeepsCursor(s) ==
    IF s.session = 0 THEN s
    ELSE [s EXCEPT !.lastCmd[s.session] = "stop",
                   !.playbackState = "stopped",
                   !.obs.cmds = @ \cup {Cmd(s, "stop")}]

internalStopAudio(s) ==
    IF s.session = 0 THEN s
    ELSE [s EXCEPT !.lastCmd[s.session] = "stop",
                   !.playbackState = "stopped",
                   !.nextStartTime = 0,
                   !.obs.cmds = @ \cup {Cmd(s, "stop")},
                   !.obs.sched = << >>]

(* PromptDj: the connection *)

HasFreeConn(s) == \E i \in SessionIds : s.conns[i].status = "unused"

FreeConn(s) ==
    CHOOSE i \in SessionIds :
        /\ s.conns[i].status = "unused"
        /\ \A j \in SessionIds : s.conns[j].status = "unused" => i <= j

\* connectToSession up to its await; `caller' is the handler awaiting it
connectToSession(s, caller) ==
    [s EXCEPT !.conns[FreeConn(s)] = [status |-> "opening", caller |-> caller]]

\* firstUpdated after the await
firstUpdatedResumed(s) == updateLyriaPrompts(s, s.mcpPrompt)

\* handlePlayPause after the await
playPauseResumed(s) ==
    IF ~s.connectionError
    THEN internalLoadAudio(updateLyriaPrompts(s, s.mcpPrompt))
    ELSE s

ResetPrompt ==
    [weightedPrompts |-> << WP("ambient gentle reset", 100) >>,
     config |-> [temperature |-> 80, seed |-> Absent,
                 density |-> 30, brightness |-> 50]]

StartupPrompt ==
    [weightedPrompts |-> << WP("ambient startup", 100) >>,
     config |-> [temperature |-> 80, seed |-> Absent,
                 density |-> 30, brightness |-> 50]]

handleResetMcpMusicalDefaults(s) ==
    updateLyriaPrompts([s EXCEPT !.mcpPrompt = ResetPrompt], ResetPrompt)

\* handleReset from internalPauseAudio on; resetContext on an undefined
\* session throws and ends the handler
resetBody(s) ==
    LET s1 == internalPauseAudio(s)
    IN  IF s1.session = 0 THEN s1
        ELSE LET s2 == [s1 EXCEPT !.lastCmd[s1.session] = "resetContext",
                                  !.obs.cmds = @ \cup {Cmd(s1, "resetContext")}]
                 s3 == handleResetMcpMusicalDefaults(resetToDefaults(s2))
             IN  [s3 EXCEPT !.timers = @ \cup
                     {[kind |-> "reset", due |-> s3.now + resetDelay]}]

\* handleReset after the await
resetResumed(s) ==
    IF s.connectionError THEN Toast(s, "Cannot reset") ELSE resetBody(s)

Resumed(s, caller) ==
    CASE caller = "firstUpdated" -> firstUpdatedResumed(s)
      [] caller = "handlePlayPause" -> playPauseResumed(s)
      [] caller = "handleReset" -> resetResumed(s)

\* connect() resolved: the try block completes, then the caller goes on
connectResolved(s, id) ==
    Resumed([s EXCEPT !.conns[id].status = "open", !.session = id],
            s.conns[id].caller)

connectRejectedKeepsState(s, id) ==
    Resumed(Toast([s EXCEPT !.conns[id].status = "failed",
                            !.connectionError = TRUE,
                            !.obs.rejectedIn = s.playbackState],
                  "Failed to connect"),
            s.conns[id].caller)

\* connect() rejected: the catch block, then the caller goes on
connectRejected(s, id) ==
    Resumed(Toast([s EXCEPT !.conns[id].status = "failed",
                            !.connectionError = TRUE,
                            !.playbackState = "stopped",
                            !.obs.rejectedIn = s.playbackState],
                  "Failed to connect"),
            s.conns[id].caller)

handlePlayPause(s) ==
    CASE s.playbackState = "playing" -> internalPauseAudio(s)
      [] s.playbackState \in {"paused", "stopped"} ->
            IF s.connectionError THEN connectToSession(s, "handlePlayPause")
            ELSE internalLoadAudio(s)
      [] s.playbackState = "loading" -> internalStopAudio(s)

handleReset(s) ==
    IF s.connectionError THEN connectToSession(s, "handleReset")
    ELSE resetBody(s)

(* PromptDj: inbound events *)

PrimeTime(t) == t + bufferTime * 1000

IsUnderrunInverted(nst, t) == nst > t

IsUnderrun(nst, t) == nst < t

AdvanceCursorStuck(nst, dur) == nst

AdvanceCursor(nst, dur) == nst + dur

onmessageFilterFatal(s, id, m) ==
    LET s1 == IF m.setupComplete THEN [s EXCEPT !.connectionError = FALSE] ELSE s
        s2 == IF m.filtered # ""
              THEN Toast([s1 EXCEPT !.filteredPrompts = @ \cup {m.filtered},
                                    !.playbackState = "stopped",
                                    !.nextStartTime = 0],
                         "Filtered")
              ELSE s1
    IN  IF m.audio = Absent THEN s2
        ELSE IF m.audio = Undef
        THEN IF s2.playbackState \in {"paused", "stopped"} THEN s2
             ELSE [s2 EXCEPT !.obs.dropped = "empty"]
        ELSE LET s3 == [s2 EXCEPT !.chunkSeq = @ + 1]
             IN  IF s3.playbackState \in {"paused", "stopped"} THEN s3
                 ELSE [s3 EXCEPT !.decoding = @ \cup
                          {[chunk |-> s3.chunkSeq, dur |-> m.audio]}]

\* onmessage up to the await of decodeAudioData; m.audio is the duration of
\* audioChunks[0], Absent without audioChunks, Undef for an empty list, on
\* which audioChunks[0].data throws
onmessage(s, id, m) ==
    LET s1 == IF m.setupComplete THEN [s EXCEPT !.connectionError = FALSE] ELSE s
        s2 == IF m.filtered # ""
              THEN Toast([s1 EXCEPT !.filteredPrompts = @ \cup {m.filtered}],
                         "Filtered")
              ELSE s1
    IN  IF m.audio = Absent THEN s2
        ELSE IF m.audio = Undef
        THEN IF s2.playbackState \in {"paused", "stopped"} THEN s2
             ELSE [s2 EXCEPT !.obs.dropped = "empty"]
        ELSE LET s3 == [s2 EXCEPT !.chunkSeq = @ + 1]
             IN  IF s3.playbackState \in {"paused", "stopped"} THEN s3
                 ELSE [s3 EXCEPT !.decoding = @ \cup
                          {[chunk |-> s3.chunkSeq, dur |-> m.audio]}]

\* onmessage after the await: lines 1679-1690 for the decoded chunk c
decoded(s, c) ==
    LET t == s.now
        priming == s.nextStartTime = 0
        nst == IF priming THEN PrimeTime(t) ELSE s.nextStartTime
        s1 == [s EXCEPT !.decoding = @ \ {c},
                        !.timers = IF priming
                                   THEN @ \cup {[kind |-> "promote",
                                                 due |-> t + bufferTime * 1000]}
                                   ELSE @]
    IN  IF IsUnderrun(nst, t)
        THEN [s1 EXCEPT !.playbackState = "loading",
                        !.nextStartTime = 0,
                        !.obs.sched = << >>,
                        !.obs.outcome = "underrun"]
        ELSE [s1 EXCEPT !.nextStartTime = AdvanceCursor(nst, c.dur),
                        !.obs.sched = << [start |-> nst, dur |-> c.dur,
                                           chunk |-> c.chunk] >>,
                        !.obs.outcome =
                            IF ~priming THEN "appended"
                            ELSE IF s.obs.outcome = "underrun" THEN "reprimed"
                            ELSE "primed"]

decodeFailedStops(s, c) ==
    [s EXCEPT !.decoding = @ \ {c},
              !.playbackState = "stopped",
              !.nextStartTime = 0,
              !.obs.dropped = "failed"]

\* the await of line 1678 throws: the rest of onmessage does not run
decodeFailed(s, c) ==
    [s EXCEPT !.decoding = @ \ {c}, !.obs.dropped = "failed"]

\* a setTimeout callback runs
timerFired(s, t) ==
    LET s1 == [s EXCEPT !.timers = @ \ {t}]
    IN  IF t.kind = "promote"
        THEN IF s1.playbackState = "loading"
             THEN [s1 EXCEPT !.playbackState = "playing"]
             ELSE s1
        ELSE IF ~s1.connectionError THEN internalLoadAudio(s1) ELSE s1

onerrorReconnects(s, id) ==
    LET s1 == Toast(internalStopAudio([s EXCEPT !.connectionError = TRUE]),
                    "Lyria connection error")
    IN  IF HasFreeConn(s1) THEN connectToSession(s1, "firstUpdated") ELSE s1

onerror(s, id) ==
    Toast(internalStopAudio([s EXCEPT !.connectionError = TRUE]),
          "Lyria connection error")

oncloseAlwaysStops(s, id, wasClean) ==
    Toast(internalStopAudio([s EXCEPT !.connectionError = TRUE]),
          "Lyria connection closed unexpectedly")

onclose(s, id, wasClean) ==
    IF ~wasClean
    THEN Toast(internalStopAudio([s EXCEPT !.connectionError = TRUE]),
               "Lyria connection closed unexpectedly")
    ELSE s

\* the promise of a send settles: the catch blocks of lines 1728-1731, 1738-1740
sendSettled(s, ch, ok) ==
    LET s1 == [s EXCEPT !.pendingSends[ch] = @ - 1]
    IN  IF ok THEN s1
        ELSE IF ch = "prompts"
        THEN internalPauseAudio(Toast(s1, "Error setting prompts"))
        ELSE Toast(s1, "Error setting Lyria config")

(* PromptDj: user prompts *)

\* JSON.stringify(Array.from(userPrompts.entries())): one [key, object] pair
\* per prompt, the object as its list of members
PromptMembers == << "promptId", "text", "weight" >>

stringify(prompts) ==
    [i \in 1 .. Len(prompts) |->
        << prompts[i].promptId,
           [j \in 1 .. Len(PromptMembers) |->
               << PromptMembers[j], prompts[i][PromptMembers[j]] >>] >>]

\* new Map(JSON.parse(text)): the objects of the pairs, in their order
parse(text) ==
    [i \in 1 .. Len(text) |->
        LET obj == text[i][2]
            member(n) == obj[CHOOSE j \in 1 .. Len(obj) : obj[j][1] = n][2]
        IN  [promptId |-> member("promptId"), text |-> member("text"),
             weight |-> member("weight")]]

getStoredUserPrompts(item) == IF item = << >> THEN << >> ELSE parse(item[1])

storeUserPrompts(s) == [s EXCEPT !.stored = << stringify(s.userPrompts) >>]

HasPrompt(s, pid) == \E i \in 1 .. Len(s.userPrompts) : s.userPrompts[i].promptId = pid

handleUserPromptChanged(s, pid, text, weight) ==
    IF ~HasPrompt(s, pid) THEN s
    ELSE storeUserPrompts(setSessionPrompts(
             [s EXCEPT !.userPrompts =
                 [i \in 1 .. Len(@) |->
                     IF @[i].promptId = pid
                     THEN [promptId |-> pid, text |-> text, weight |-> weight]
                     ELSE @[i]]],
             s.currentLyriaPrompts))

handleAddUserPrompt(s, text) ==
    storeUserPrompts(setSessionPrompts(
        [s EXCEPT !.userPrompts =
                      Append(@, [promptId |-> s.nextUserPromptId,
                                 text |-> text, weight |-> 0]),
                  !.nextUserPromptId = @ + 1],
        s.currentLyriaPrompts))

handleUserPromptRemovedUnsaved(s, pid) ==
    IF ~HasPrompt(s, pid) THEN s
    ELSE setSessionPrompts(
             [s EXCEPT !.userPrompts = SelectSeq(@, LAMBDA p : p.promptId # pid)],
             s.currentLyriaPrompts)

handleUserPromptRemoved(s, pid) ==
    IF ~HasPrompt(s, pid) THEN s
    ELSE storeUserPrompts(setSessionPrompts(
             [s EXCEPT !.userPrompts = SelectSeq(@, LAMBDA p : p.promptId # pid)],
             s.currentLyriaPrompts))

\* runSimulationCycle, lines 2314-2328: the musical agent's output arrives
agentOutput(s, p) == updateLyriaPrompts([s EXCEPT !.mcpPrompt = p], p)

----------------------------------------------------------------------------
(* MultiAgentSystemDashboard: the simulation *)

AgentKeys == {"ingestion", "context", "musical", "feedback"}

\* the agent a cycle awaits after agent k, "" after the last one
NextAgent(k) ==
    CASE k = "ingestion" -> "context"
      [] k = "context" -> "musical"
      [] k = "musical" -> "feedback"
      [] k = "feedback" -> ""

\* the setTimeout inside execute<K>Agent: base + Math.random() * spread
MinDelay(k) ==
    CASE k = "ingestion" -> 300
      [] k = "context" -> 400
      [] k = "musical" -> 500
      [] k = "feedback" -> 300

MaxDelay(k) == MinDelay(k) + (IF k = "musical" THEN 150 ELSE 100)

updateAgentState(s, k, status) == [s EXCEPT !.sim.agents[k] = status]

\* public playAudio() and pauseAudio() of the player
playAudio(s) ==
    IF s.playbackState \notin {"playing", "loading"} THEN handlePlayPause(s) ELSE s

pauseAudio(s) ==
    IF s.playbackState \in {"playing", "loading"} THEN internalPauseAudio(s) ELSE s

\* runSimulationCycle up to its first await
runSimulationCycle(s) ==
    IF ~s.sim.simulationRunning THEN s
    ELSE LET n == s.sim.total_cycles + 1
             s1 == [s EXCEPT !.sim.overallStatus = "working",
                             !.sim.total_cycles = n]
             s2 == updateAgentState(s1, "ingestion", "working")
         IN  [s2 EXCEPT !.sim.cycles =
                 @ \cup {[n |-> n, agent |-> "ingestion", since |-> s.now]}]

\* runSimulationCycle from the await of agent c.agent to its next await, or
\* to its end; p is the musical agent's output
agentDone(s, c, p) ==
    LET s1 == updateAgentState(s, c.agent, "success")
        s2 == IF c.agent = "musical" THEN agentOutput(s1, p) ELSE s1
        k == NextAgent(c.agent)
    IN  IF k # ""
        THEN [updateAgentState(s2, k, "working") EXCEPT
                 !.sim.cycles = (@ \ {c}) \cup
                     {[n |-> c.n, agent |-> k, since |-> s.now]}]
        ELSE [s2 EXCEPT !.sim.cycles = @ \ {c},
                        !.sim.overallStatus =
                            IF @ = "working" THEN "ready" ELSE @]

\* the callback of a simulation interval timer
intervalFired(s, t) ==
    LET s1 == [s EXCEPT !.sim.intervals =
                   (@ \ {t}) \cup {[t EXCEPT !.due = @ + t.period]}]
    IN  IF s1.sim.simulationRunning THEN runSimulationCycle(s1) ELSE s1

startSimulation(s) ==
    IF s.sim.simulationRunning THEN s
    ELSE LET id == s.sim.nextTimerId
             s1 == [s EXCEPT
                      !.sim.simulationRunning = TRUE,
                      !.sim.overallStatus = "working",
                      !.sim.intervals = @ \cup
                          {[id |-> id, period |-> s.sim.updateIntervalMs,
                            due |-> s.now + s.sim.updateIntervalMs]},
                      !.sim.simulationIntervalId = id,
                      !.sim.nextTimerId = id + 1]
         IN  playAudio(runSimulationCycle(s1))

stopSimulation(s) ==
    pauseAudio(
        [s EXCEPT !.sim.simulationRunning = FALSE,
                  !.sim.overallStatus = "ready",
                  !.sim.intervals =
                      { t \in @ : t.id # s.sim.simulationIntervalId },
                  !.sim.simulationIntervalId = 0,
                  !.sim.agents = [k \in AgentKeys |-> "ready"]])

handleIntervalChange(s, v) ==
    LET s1 == [s EXCEPT !.sim.updateIntervalMs = v]
    IN  IF s1.sim.simulationRunning THEN startSimulation(stopSimulation(s1))
        ELSE s1

----------------------------------------------------------------------------
(* Initial state: the elements as constructed, before firstUpdated *)

\* what getStoredUserPrompts may find in localStorage
StoredUserPrompts ==
    { << >>, << [promptId |-> 0, text |-> "Funk", weight |-> 100] >> }

\* the item as an earlier run of the page left it
StoredItems ==
    { IF p = << >> THEN << >> ELSE << stringify(p) >> : p \in StoredUserPrompts }

NoWindow ==
    [start |-> Absent, calls |-> 0, asked |-> << >>, dispatches |-> 0,
     sent |-> << >>, connected |-> FALSE]

Init ==
    /\ now = 0
    /\ playbackState = "stopped"
    /\ nextStartTime = 0
    /\ connectionError = TRUE
    /\ session = 0
    /\ filteredPrompts = {}
    /\ stored \in StoredItems
    /\ userPrompts = getStoredUserPrompts(stored)
    /\ nextUserPromptId = Len(userPrompts)
    /\ currentLyriaPrompts = << >>
    /\ lastCall = [ch \in Channels |-> 0]
    /\ config = defaultConfig
    /\ autoField = [f \in AutoFields |-> TRUE]
    /\ lastDefined = [f \in AutoFields |-> Undef]
    /\ mcpPrompt = StartupPrompt
    /\ conns = [i \in SessionIds |-> [status |-> "unused", caller |-> ""]]
    /\ decoding = {}
    /\ chunkSeq = 0
    /\ timers = {}
    /\ pendingSends = [ch \in Channels |-> 0]
    /\ lastCmd = [i \in SessionIds |-> "none"]
    /\ sentPrompts = << >>
    /\ sentConfig = << >>
    /\ emitted = << >>
    /\ sim = [ simulationRunning |-> FALSE, overallStatus |-> "ready",
               simulationIntervalId |-> 0, updateIntervalMs |-> 4000,
               intervals |-> {}, nextTimerId |-> 1,
               cycles |-> {}, total_cycles |-> 0,
               agents |-> [k \in AgentKeys |-> "ready"] ]
    /\ obs = [ toast |-> {}, cmds |-> {}, event |-> "", dropped |-> "",
               faulted |-> FALSE, cancelled |-> FALSE, rejectedIn |-> "",
               cfgAtSend |-> defaultConfig,
               manualAtSend |-> [f \in AutoFields |-> Absent],
               sched |-> << >>, outcome |-> "",
               sendCase |-> [allZero |-> FALSE, filtered |-> {}],
               invokedAt |-> [ch \in Channels |-> Absent],
               gap |-> [ch \in Channels |-> Absent],
               win |-> [ch \in Channels |-> NoWindow],
               trip |-> [f \in AutoFields |-> [stage |-> 0, x |-> Absent]] ]

----------------------------------------------------------------------------
(* Actions *)

FirstUpdated ==
    /\ \A i \in SessionIds : conns[i].status = "unused"
    /\ Does("firstUpdated", connectToSession(Cur, "firstUpdated"))

ConnectResolved ==
    \E i \in SessionIds :
        /\ conns[i].status = "opening"
        /\ Does("connectResolved", connectResolved(Cur, i))

ConnectRejected ==
    \E i \in SessionIds :
        /\ conns[i].status = "opening"
        /\ Does("connectRejected", connectRejected(Cur, i))

Started == \E i \in SessionIds : conns[i].status # "unused"

Msg(sc, f, a) == [setupComplete |-> sc, filtered |-> f, audio |-> a]

\* the service's setup-complete message; it may overtake the connect() promise
SetupComplete ==
    \E i \in SessionIds :
        /\ conns[i].status \in {"opening", "open"}
        /\ connectionError
        /\ Does("setupComplete", onmessage(Cur, i, Msg(TRUE, "", Absent)))

AudioChunk ==
    \E i \in SessionIds, d \in ChunkDurations :
        /\ conns[i].status = "open"
        /\ lastCmd[i] = "play"
        /\ chunkSeq < MaxChunks
        /\ Cardinality(decoding) < MaxDecoding
        /\ Does("audioChunk", onmessage(Cur, i, Msg(FALSE, "", d)))

Decoded ==
    \E c \in decoding : Does("decoded", decoded(Cur, c))

\* decode or decodeAudioData fails on the payload of a pending chunk
DecodeFailed ==
    \E c \in decoding : Does("decodeFailed", decodeFailed(Cur, c))

\* the service sends a message whose audioChunks list is empty
EmptyAudioChunks ==
    \E i \in SessionIds :
        /\ conns[i].status = "open"
        /\ lastCmd[i] = "play"
        /\ Does("audioChunk", onmessage(Cur, i, Msg(FALSE, "", Undef)))

TimerFired ==
    \E t \in timers :
        /\ t.due <= now
        /\ Does(IF t.kind = "promote" THEN "timer:promote" ELSE "timer:reset",
                timerFired(Cur, t))

\* the socket of a connection reports an error, also before connect() settles
ErrorEvent(statuses) ==
    \E i \in SessionIds :
        /\ conns[i].status \in statuses
        /\ Does("onerror",
                onerror(IF conns[i].status = "open"
                        THEN Status(Cur, i, "errored") ELSE Cur, i))

CloseEvent ==
    \E i \in SessionIds, wasClean \in BOOLEAN :
        /\ conns[i].status \in {"open", "errored"}
        /\ Does(IF wasClean THEN "onclose:clean" ELSE "onclose:unclean",
                onclose(Status(Cur, i, IF wasClean THEN "closed" ELSE "lost"),
                        i, wasClean))

SendSettled ==
    \E ch \in Channels, ok \in BOOLEAN :
        /\ pendingSends[ch] > 0
        /\ Does(IF ok THEN "sendResolved" ELSE "sendRejected:" \o ch,
                sendSettled(Cur, ch, ok))

PlayPauseClicked ==
    /\ Started
    /\ (playbackState \in {"paused", "stopped"} /\ connectionError)
           => HasFreeConn(Cur)
    /\ Does("handlePlayPause", handlePlayPause(Cur))

\* the play/pause button while the connection is up
PlayPauseConnected ==
    /\ ~connectionError
    /\ Does("handlePlayPause", handlePlayPause(Cur))

\* the play/pause button while the connection is down
PlayPauseDisconnected ==
    /\ connectionError
    /\ PlayPauseClicked

ResetClicked ==
    /\ Started
    /\ connectionError => HasFreeConn(Cur)
    /\ Does("handleReset", handleReset(Cur))

Tick(steps) ==
    \E d \in steps :
        /\ Started
        /\ now + d <= MaxTime
        /\ \A t \in timers : t.due > now
        /\ now' = now + d
        /\ UNCHANGED << playbackState, nextStartTime, connectionError, session,
                        filteredPrompts, userPrompts, nextUserPromptId,
                        currentLyriaPrompts, lastCall, config, autoField,
                        lastDefined, mcpPrompt, conns, decoding, chunkSeq,
                        timers, pendingSends, lastCmd, sentPrompts, sentConfig,
                        emitted, stored, sim >>
        /\ obs' = [obs EXCEPT !.toast = {}, !.cmds = {}, !.event = "",
                               !.dropped = ""]

CoarseTick == Tick(CoarseSteps)

\* the clock advances by the lookahead
LookaheadTick == Tick({bufferTime * 1000})

\* once connected, the clock advances by a fraction of the throttle interval
FineTick ==
    /\ Connected(Cur)
    /\ now < MaxFineTime
    /\ Tick(FineSteps)

\* the clock advances by the delay of a pending reset timer
ResetTick ==
    /\ now + resetDelay <= MaxResetTime
    /\ timers # {}
    /\ Tick({resetDelay})

\* once connected, the clock advances by one throttle interval
DelayTick ==
    /\ Connected(Cur)
    /\ now < MaxFineTime
    /\ Tick({delay})

FilteredPrompt(texts) ==
    \E i \in SessionIds, t \in texts :
        /\ conns[i].status = "open"
        /\ t \notin filteredPrompts
        /\ Does("filteredPrompt", onmessage(Cur, i, Msg(FALSE, t, Absent)))

AddUserPrompt ==
    \E t \in Texts :
        /\ Started
        /\ nextUserPromptId < MaxUserPrompts
        /\ Does("handleAddUserPrompt", handleAddUserPrompt(Cur, t))

ChangeUserPrompt ==
    \E i \in 1 .. Len(userPrompts), t \in Texts, w \in Weights :
        /\ << t, w >> # << userPrompts[i].text, userPrompts[i].weight >>
        /\ Does("handleUserPromptChanged", handleUserPromptChanged(Cur, userPrompts[i].promptId, t, w))

RemoveUserPrompt ==
    \E i \in 1 .. Len(userPrompts) :
        Does("handleUserPromptRemoved", handleUserPromptRemoved(Cur, userPrompts[i].promptId))

AgentOutput(outputs) ==
    \E p \in outputs :
        /\ Started
        /\ Does("agentOutput", agentOutput(Cur, p))

\* the auto checkbox of density or brightness is clicked
ToggleAuto ==
    \E f \in AutoFields :
        /\ Started
        /\ Does("handleInputChange", inputAuto(Cur, f, ~autoField[f]))

\* the slider of density or brightness is moved; it is disabled while auto
SlideAutoField ==
    \E f \in AutoFields, v \in Values :
        /\ Started
        /\ ~autoField[f]
        /\ v # config[f]
        /\ Does("handleInputChange", inputAutoField(Cur, f, v))

\* another input changes: the temperature slider, the seed number box (which
\* can be emptied)
InputPlain(keys) ==
    \E k \in keys, v \in Values \cup {Undef} :
        /\ Started
        /\ v # config[k]
        /\ k = "temperature" => v # Undef
        /\ Does("handleInputChange", inputPlain(Cur, k, v))

AgentConfig(d) ==
    [temperature |-> 100, seed |-> Absent, density |-> d, brightness |-> 50]

AgentOutputs ==
    { [weightedPrompts |-> ps, config |-> AgentConfig(30)] :
          ps \in { << >>, << WP("calm", 100) >>, << WP("calm", 0) >> } }

AgentTunings ==
    { [weightedPrompts |-> << WP("calm", 100) >>, config |-> AgentConfig(d)] :
          d \in Values }

\* agent updates as the type MCPPromptAndConfig allows them: the config is
\* a partial patch and may leave density out
AgentPatches ==
    AgentTunings \cup
        { [weightedPrompts |-> << WP("calm", 100) >>, config |-> AgentConfig(Absent)] }

\* the player on its first connection: start-up, transport commands, the
\* audio pipeline, the outcome of control-plane sends, a connection error
Next ==
    \/ FirstUpdated
    \/ ConnectResolved
    \/ SetupComplete
    \/ AudioChunk
    \/ Decoded
    \/ TimerFired
    \/ ErrorEvent({"open"})
    \/ SendSettled
    \/ PlayPauseConnected
    \/ CoarseTick

Spec == Init /\ [][Next]_vars

\* the two throttled channels on a healthy connection, the clock in steps of
\* half the throttle interval
NextThrottle ==
    \/ FirstUpdated
    \/ ConnectResolved
    \/ SetupComplete
    \/ ChangeUserPrompt
    \/ AgentOutput(AgentTunings)
    \/ InputPlain({"seed"})
    \/ FineTick

SpecThrottle == Init /\ [][NextThrottle]_vars

\* what the prompt channel sends: user prompts, agent prompt sets, prompts
\* the service filters
NextPrompts ==
    \/ FirstUpdated
    \/ ConnectResolved
    \/ SetupComplete
    \/ AddUserPrompt
    \/ ChangeUserPrompt
    \/ RemoveUserPrompt
    \/ AgentOutput(AgentOutputs)
    \/ FilteredPrompt({"Funk", "calm"})
    \/ DelayTick

SpecPrompts == Init /\ [][NextPrompts]_vars

\* the prompt channel with one filtered text: what each dispatch carries
NextDispatch ==
    \/ FirstUpdated
    \/ ConnectResolved
    \/ SetupComplete
    \/ AddUserPrompt
    \/ ChangeUserPrompt
    \/ RemoveUserPrompt
    \/ AgentOutput(AgentOutputs)
    \/ FilteredPrompt({"Funk"})
    \/ DelayTick

SpecDispatch == Init /\ [][NextDispatch]_vars

\* the user's prompts, edited before and after the player connects
NextStore ==
    \/ FirstUpdated
    \/ ConnectResolved
    \/ SetupComplete
    \/ AddUserPrompt
    \/ ChangeUserPrompt
    \/ RemoveUserPrompt
    \/ DelayTick

SpecStore == Init /\ [][NextStore]_vars

\* the settings panel and the agent's config
NextSettings ==
    \/ FirstUpdated
    \/ ToggleAuto
    \/ SlideAutoField
    \/ InputPlain({"temperature", "seed"})
    \/ AgentOutput(AgentTunings)

SpecSettings == Init /\ [][NextSettings]_vars

\* the config channel on a healthy connection: the auto/manual controls and
\* agent patches, the clock in steps of the throttle interval
NextAgentConfig ==
    \/ FirstUpdated
    \/ ConnectResolved
    \/ SetupComplete
    \/ ToggleAuto
    \/ SlideAutoField
    \/ AgentOutput(AgentPatches)
    \/ DelayTick

SpecAgentConfig == Init /\ [][NextAgentConfig]_vars

\* the connection: start-up, failures, errors, closes and the play button
NextConn ==
    \/ FirstUpdated
    \/ ConnectResolved
    \/ ConnectRejected
    \/ SetupComplete
    \/ ErrorEvent({"open"})
    \/ CloseEvent
    \/ PlayPauseClicked

SpecConn == Init /\ [][NextConn]_vars

\* values of the update-interval input: min 1000, max 10000, step 500
UpdateIntervals == {1000, 4000}

\* what the musical agent may return
MusicalOutputs ==
    { [weightedPrompts |-> << WP("calm", 100) >>, config |-> AgentConfig(30)] }

StartSimulation ==
    /\ Connected(Cur)
    /\ ~sim.simulationRunning
    /\ sim.total_cycles < MaxCycles
    /\ Does("startSimulation", startSimulation(Cur))

StopSimulation ==
    /\ sim.simulationRunning
    /\ Does("stopSimulation", stopSimulation(Cur))

IntervalChange ==
    \E v \in UpdateIntervals :
        /\ Connected(Cur)
        /\ v # sim.updateIntervalMs
        /\ sim.total_cycles < MaxCycles
        /\ Does("handleIntervalChange", handleIntervalChange(Cur, v))

IntervalFired ==
    \E t \in sim.intervals :
        /\ t.due <= now
        /\ sim.total_cycles < MaxCycles
        /\ Does("simulationInterval", intervalFired(Cur, t))

AgentDone ==
    \E c \in sim.cycles, p \in MusicalOutputs :
        /\ now - c.since >= MinDelay(c.agent)
        /\ Does("agentDone", agentDone(Cur, c, p))

\* once connected, the clock advances while the simulation is observed: not past a due
\* interval timer, not past the latest completion of an awaited agent
SimTick ==
    /\ Connected(Cur)
    /\ now < MaxSimTime
    /\ \A t \in sim.intervals : t.due > now
    /\ \A c \in sim.cycles : now + 100 - c.since <= MaxDelay(c.agent)
    /\ Tick({100})

\* the dashboard's simulation driving a connected player
NextSim ==
    \/ FirstUpdated
    \/ ConnectResolved
    \/ SetupComplete
    \/ StartSimulation
    \/ StopSimulation
    \/ IntervalChange
    \/ IntervalFired
    \/ AgentDone
    \/ SimTick

SpecSim == Init /\ [][NextSim]_vars

\* the clock advances by a fraction of the throttle interval, connected or not
ReplayTick ==
    /\ now < MaxFineTime
    /\ Tick(FineSteps)

\* plays that reconnect after an error while the user edits a prompt
NextReplay ==
    \/ FirstUpdated
    \/ ConnectResolved
    \/ SetupComplete
    \/ ErrorEvent({"open"})
    \/ PlayPauseDisconnected
    \/ ChangeUserPrompt
    \/ ReplayTick

SpecReplay == Init /\ [][NextReplay]_vars

\* the player on its first connection when the connection breaks: errors
\* before and after connect() settles, clean and unclean closes
NextBreak ==
    \/ FirstUpdated
    \/ ConnectResolved
    \/ SetupComplete
    \/ AudioChunk
    \/ Decoded
    \/ TimerFired
    \/ ErrorEvent({"opening", "open"})
    \/ CloseEvent
    \/ PlayPauseConnected
    \/ LookaheadTick

SpecBreak == Init /\ [][NextBreak]_vars

\* the reset button: start-up, reconnects that succeed or fail, errors, the
\* reset timer
NextReset ==
    \/ FirstUpdated
    \/ ConnectResolved
    \/ ConnectRejected
    \/ SetupComplete
    \/ ErrorEvent({"open"})
    \/ ResetClicked
    \/ TimerFired
    \/ ResetTick

SpecReset == Init /\ [][NextReset]_vars

\* filtered-prompt notifications while audio is loading and playing
NextFilter ==
    \/ FirstUpdated
    \/ ConnectResolved
    \/ SetupComplete
    \/ AudioChunk
    \/ Decoded
    \/ TimerFired
    \/ PlayPauseConnected
    \/ FilteredPrompt({"Funk", "calm"})
    \/ LookaheadTick

SpecFilter == Init /\ [][NextFilter]_vars

\* everything that could open a connection: start-up, the play button while
\* disconnected, the reset button, connect results, errors, the reset timer
\* and the agent update of a reset
NextConnect ==
    \/ FirstUpdated
    \/ ConnectResolved
    \/ ConnectRejected
    \/ SetupComplete
    \/ ErrorEvent({"open"})
    \/ PlayPauseDisconnected
    \/ ResetClicked
    \/ TimerFired
    \/ ResetTick

SpecConnect == Init /\ [][NextConnect]_vars

\* playback with chunks whose decode fails and messages without a chunk
NextDecode ==
    \/ FirstUpdated
    \/ ConnectResolved
    \/ SetupComplete
    \/ AudioChunk
    \/ EmptyAudioChunks
    \/ Decoded
    \/ DecodeFailed
    \/ TimerFired
    \/ PlayPauseConnected
    \/ LookaheadTick

SpecDecode == Init /\ [][NextDecode]_vars

\* start-up of playback on a healthy connection, with the progress the
\* browser guarantees: a pending decode settles, a due timer callback runs,
\* the audio clock advances
NextStartup ==
    \/ FirstUpdated
    \/ ConnectResolved
    \/ SetupComplete
    \/ AudioChunk
    \/ Decoded
    \/ TimerFired
    \/ PlayPauseConnected
    \/ LookaheadTick

SpecPlayback == Init /\ [][NextStartup]_vars

SpecStartup ==
    /\ Init /\ [][NextStartup]_vars
    /\ WF_vars(Decoded)
    /\ WF_vars(TimerFired)
    /\ WF_vars(LookaheadTick)

----------------------------------------------------------------------------
(* Properties of the playback scheduler *)

\* a step in which the continuation of onmessage ran for one decoded chunk
DecodedStep == decoding' # decoding /\ decoding' \subseteq decoding

\* a step in which source.start was called: only then is the cursor left primed
StartStep == DecodedStep /\ nextStartTime' # 0

\* C1: a chunk handled while the cursor is primed and already in the past is
\* not started, resets the cursor to 0 and puts the player in loading; the
\* chunk handled next sets the cursor to now + bufferTime and starts there.
C1_UnderrunRecovery ==
    [][ DecodedStep =>
          /\ (nextStartTime # 0 /\ nextStartTime < now) =>
                /\ ~StartStep
                /\ nextStartTime' = 0
                /\ playbackState' = "loading"
          /\ obs.outcome = "underrun" =>
                /\ StartStep
                /\ obs'.sched[1].start = now + bufferTime * 1000
                /\ nextStartTime' = now + bufferTime * 1000 + obs'.sched[1].dur
      ]_vars

C1_Witness == obs.outcome = "reprimed" /\ obs.sched # << >>

\* C2: a chunk started right after another one, with no underrun, pause or
\* stop in between, starts exactly where the earlier one ends.
C2_MonotonicScheduling ==
    [][ (StartStep /\ obs.sched # << >>) =>
            obs'.sched[1].start = obs.sched[1].start + obs.sched[1].dur
      ]_vars

C2_Witness == obs.outcome = "appended" /\ obs.sched # << >>

\* C3: no buffer is started on the output while the player is paused or
\* stopped, also when its decode completes after the pause, stop or error.
C3_NoStartWhilePausedOrStopped ==
    [][ StartStep => playbackState \notin {"paused", "stopped"} ]_vars

----------------------------------------------------------------------------
(* Properties of the throttled control channels *)

\* the throttle window of channel ch that holds the latest call is over
WindowOver(ch) ==
    /\ obs.win[ch].start # Absent
    /\ DateNow(Cur) >= obs.win[ch].start + delay

\* C4: once a throttle window in which two or more calls were made on a
\* channel, all while connected, is over, exactly one dispatch has resulted
\* from those calls and it carried what the last of them asked for.
C4_ThrottleCoalescing ==
    \A ch \in Channels :
        (WindowOver(ch) /\ obs.win[ch].calls >= 2 /\ obs.win[ch].connected) =>
            /\ obs.win[ch].dispatches = 1
            /\ obs.win[ch].sent = obs.win[ch].asked

Omit(cfg) == [k \in Fields |-> IF IsDefined(cfg[k]) THEN cfg[k] ELSE Absent]

\* C6: when the mutations were made while connected and the windows of both
\* channels are over, the prompt list sent last is the one derived from the
\* current agent prompts and user prompts, and the config sent last is the
\* tracked config without its auto fields.
C6_LastSentWins ==
    ( /\ Connected(Cur)
      /\ \A ch \in Channels : WindowOver(ch) /\ obs.win[ch].connected ) =>
        /\ sentPrompts = << AllPrompts(Cur, currentLyriaPrompts) >>
        /\ sentConfig # << >>
        /\ Omit(sentConfig[1]) = Omit(ConfigToSend(config, autoField))

----------------------------------------------------------------------------
(* Properties of the prompt list *)

C8_FilteredExclusion ==
    sentPrompts # << >> =>
        \A i \in 1 .. Len(sentPrompts[1]) :
            sentPrompts[1][i].text \notin obs.sendCase.filtered

----------------------------------------------------------------------------
(* Properties of the settings panel *)

\* C9: for density and brightness, manual with value X, then auto, then
\* manual again gives a config whose field is X; and no settings-changed
\* event carries a value for a field whose auto flag is on.
C9_AutoManualRoundTrip ==
    [][ /\ \A f \in AutoFields :
              (obs.trip[f].stage = 2 /\ obs'.trip[f].stage = 3) =>
                  /\ ~autoField'[f]
                  /\ config'[f] = obs.trip[f].x
                  /\ emitted'[1].detail[f] = obs.trip[f].x
        /\ emitted' # << >> =>
              \A f \in AutoFields :
                  emitted'[1].auto[f] => ~IsDefined(emitted'[1].detail[f])
      ]_vars

C9_Witness ==
    \E f \in AutoFields :
        /\ obs.trip[f].stage = 3
        /\ config[f] = obs.trip[f].x
        /\ obs.trip[f].x # defaultAuto

----------------------------------------------------------------------------
(* Properties of the connection *)

\* C10: when the connect call that a press of play started, with the player
\* stopped and connectionError set, succeeds, the player goes to loading and
\* a play command is sent to the new session, whether setup-complete was
\* delivered before the call returned or not.
C10_PlayWhileDisconnected ==
    [][ \A i \in SessionIds :
            ( /\ conns[i].status = "opening"
              /\ conns[i].caller = "handlePlayPause"
              /\ conns'[i].status = "open"
              /\ playbackState = "stopped" ) =>
                /\ playbackState' = "loading"
                /\ lastCmd'[i] = "play"
      ]_vars

\* the connect() of session i settles in this step
ConnectSucceeds(i) == conns[i].status = "opening" /\ conns'[i].status = "open"
ConnectFails(i) == conns[i].status = "opening" /\ conns'[i].status = "failed"

\* C11: when connectToSession completes without throwing connectionError is
\* false, and when it completes by catching a connect failure it is true.
C11_ConnectOutcomeFlag ==
    [][ \A i \in SessionIds :
            /\ ConnectSucceeds(i) => ~connectionError'
            /\ ConnectFails(i) => connectionError'
      ]_vars

\* C12: a connect call that throws leaves playbackState stopped and
\* connectionError true whatever playbackState was, and shows a notice; the
\* handler awaiting connectToSession goes on after it.
C12_FailedConnect ==
    [][ \A i \in SessionIds :
            ConnectFails(i) =>
                /\ playbackState' = "stopped"
                /\ connectionError'
                /\ "Failed to connect" \in obs'.toast
      ]_vars

C12_Witness ==
    /\ obs.rejectedIn = "loading"
    /\ playbackState = "stopped"
    /\ "Failed to connect" \in obs.toast

\* C13: in every state, the delivery of a session error event leaves
\* connectionError true, playbackState stopped and nextStartTime 0.
C13_ErrorEvent ==
    [][ "Lyria connection error" \in obs'.toast =>
            /\ connectionError'
            /\ playbackState' = "stopped"
            /\ nextStartTime' = 0
      ]_vars

\* an error event stopped a session that had audio scheduled
C13_Witness ==
    /\ "Lyria connection error" \in obs.toast
    /\ \E c \in obs.cmds : c.cmd = "stop"
    /\ \E t \in timers : t.kind = "promote"

\* C14: an unclean close does to connectionError, playbackState and
\* nextStartTime what an error event does; a clean close changes none of
\* them and shows no notice.
C14_CloseEvent ==
    [][ \A i \in SessionIds :
            conns[i].status \notin {"closed", "lost"} =>
                /\ conns'[i].status = "lost" =>
                       /\ connectionError' = onerror(Cur, i).connectionError
                       /\ playbackState' = onerror(Cur, i).playbackState
                       /\ nextStartTime' = onerror(Cur, i).nextStartTime
                       /\ connectionError'
                       /\ obs'.toast # {}
                /\ conns'[i].status = "closed" =>
                       /\ UNCHANGED << connectionError, playbackState,
                                       nextStartTime >>
                       /\ obs'.toast = {}
      ]_vars

\* a clean close was delivered while audio was playing
C14_Witness ==
    /\ \E i \in SessionIds : conns[i].status = "closed"
    /\ playbackState = "playing"
    /\ nextStartTime # 0
    /\ ~connectionError

\* a connect() is issued in this step
ConnectIssued ==
    \E i \in SessionIds : conns[i].status = "unused" /\ conns'[i].status = "opening"

\* C15: after an error event or unclean close, no play command and no prompt
\* or config update is sent to any session until a new connect() has been
\* issued, and the next press of play issues that connect().
C15_FreshConnectAfterError ==
    [][ /\ obs'.faulted =>
              \A c \in obs'.cmds :
                  c.cmd \notin {"play", "setWeightedPrompts",
                                "setMusicGenerationConfig"}
        /\ ( /\ obs.faulted
             /\ obs'.event = "handlePlayPause"
             /\ playbackState \in {"paused", "stopped"} ) => ConnectIssued
      ]_vars

\* the catch block of a control-plane send runs in this step
SendRejected(ch) ==
    IF ch = "prompts" THEN "Error setting prompts" \in obs'.toast
                      ELSE "Error setting Lyria config" \in obs'.toast

\* C16: when setWeightedPrompts or setMusicGenerationConfig rejects, a pause
\* command is sent, playbackState becomes paused and a notice is shown, on
\* both channels.
C16_SendFailurePauses ==
    [][ \A ch \in Channels :
            SendRejected(ch) =>
                /\ playbackState' = "paused"
                /\ \E c \in obs'.cmds : c.cmd = "pause"
                /\ obs'.toast # {}
      ]_vars

TransportCommands == {"play", "pause", "stop", "resetContext"}

\* C17: no play, pause, stop or resetContext command is sent at a moment
\* when there is no session or connectionError is set.
C17_TransportGated ==
    \A c \in obs.cmds :
        c.cmd \in TransportCommands => (c.to # 0 /\ ~c.connectionError)

\* C18: once playback was forced to stopped by a user stop or a connection
\* error, playbackState stays stopped and nextStartTime stays 0 until the
\* user presses play or reset, whatever message, timer, decode or send
\* result is handled in between.
C18_Cancellation ==
    [][ (obs.cancelled /\ obs'.cancelled) =>
            /\ playbackState' = "stopped"
            /\ nextStartTime' = 0
      ]_vars

\* what caused the step
UserPlayPause ==
    \/ obs'.event = "handlePlayPause"
    \/ \E i \in SessionIds : ConnectSucceeds(i) /\ conns[i].caller = "handlePlayPause"
UserReset ==
    \/ obs'.event = "handleReset"
    \/ \E i \in SessionIds : ConnectSucceeds(i) /\ conns[i].caller = "handleReset"
TimerStep(kind) == \E t \in timers : t.kind = kind /\ t \notin timers'
ConnectionLost ==
    \/ "Lyria connection error" \in obs'.toast
    \/ "Lyria connection closed unexpectedly" \in obs'.toast
    \/ "Failed to connect" \in obs'.toast

\* C19: every change of playbackState is one of the specified transitions.
C19_OnlySpecifiedTransitions ==
    [][ playbackState' # playbackState =>
          LET from == playbackState
              to == playbackState'
          IN  \/ UserPlayPause /\ from \in {"stopped", "paused"} /\ to = "loading"
              \/ TimerStep("promote") /\ from = "loading" /\ to = "playing"
              \/ DecodedStep /\ from \in {"loading", "playing"} /\ to = "loading"
              \/ UserPlayPause /\ from = "playing" /\ to = "paused"
              \/ UserPlayPause /\ from \in {"loading", "playing"} /\ to = "stopped"
              \/ ConnectionLost /\ to = "stopped"
              \/ \E ch \in Channels : SendRejected(ch) /\ to = "paused"
              \/ UserReset /\ to = "paused"
              \/ TimerStep("reset") /\ to = "loading"
      ]_vars

\* C20: every config passed to session.setMusicGenerationConfig is the
\* SettingsController's whole tracked config of that moment, without density
\* and brightness when their auto flag is on, never just the patch that
\* triggered the send.
C20_ConfigFullReplace ==
    sentConfig # << >> => Omit(sentConfig[1]) = Omit(obs.cfgAtSend)

PromptsDispatched == \E c \in obs'.cmds : c.cmd = "setWeightedPrompts"

\* C22: every list passed to session.setWeightedPrompts is the whole list:
\* the agent-driven prompt set current at dispatch time followed by exactly
\* the user prompts that then have weight > 0 and a text not in
\* filteredPrompts, or the single filler entry when that merge is empty.
C22_DispatchContent ==
    [][ PromptsDispatched =>
          LET users == SelectSeq(userPrompts',
                           LAMBDA p : p.weight > 0
                                      /\ p.text \notin filteredPrompts')
              merged == currentLyriaPrompts' \o
                            [i \in 1 .. Len(users) |->
                                 [text |-> users[i].text,
                                  weight |-> users[i].weight]]
          IN  sentPrompts' =
                  << IF merged = << >>
                     THEN << [text |-> "silence", weight |-> fillerWeight] >>
                     ELSE merged >> ]_vars

\* a dispatch made while a user prompt with weight > 0 has a filtered text
C22_Witness ==
    /\ \E c \in obs.cmds : c.cmd = "setWeightedPrompts"
    /\ \E i \in 1 .. Len(userPrompts) :
           userPrompts[i].weight > 0 /\ userPrompts[i].text \in filteredPrompts
    /\ currentLyriaPrompts # << >>
    /\ sentPrompts = << currentLyriaPrompts >>

\* Every priming of nextStartTime at time p leaves a promote timer due at
\* p + bufferTime, which stays pending until it fires: a pending promote timer
\* that is not yet due is a priming younger than bufferTime.
PrimedWithinLookahead ==
    \E t \in timers' : t.kind = "promote" /\ t.due > now'

\* C23: playbackState goes from loading to playing only when at least
\* bufferTime has elapsed since the most recent priming of nextStartTime,
\* also when earlier promotion timers are still pending.
C23_PromotionAfterLookahead ==
    [][ playbackState = "loading" /\ playbackState' = "playing"
            => ~PrimedWithinLookahead ]_vars

\* a promotion timer is pending that falls due after the modelled time span
PromotionBeyondHorizon ==
    \E t \in timers : t.kind = "promote" /\ t.due > MaxTime

C25_CursorUnprimedWhenIdle ==
    playbackState \in {"paused", "stopped"} => nextStartTime = 0

\* a decode completes and its chunk is scheduled right after a chunk that
\* was delivered later
ScheduledAfterLaterChunk ==
    /\ DecodedStep
    /\ obs.sched # << >> /\ obs'.sched # << >>
    /\ obs'.sched[1].chunk < obs.sched[1].chunk

\* C26: chunks are never reordered: a chunk delivered before another one is
\* scheduled at an earlier start time, also when both decodes are in flight
\* together and complete in either order.
C26_NoReordering ==
    [][ ScheduledAfterLaterChunk => obs'.sched[1].start < obs.sched[1].start ]_vars

\* handleReset gets past its connection check: at once when a session is
\* connected, or when the connect() it awaited resolves
ResetProceeds ==
    \/ obs'.event = "handleReset" /\ ~connectionError /\ session # 0
    \/ \E i \in SessionIds : ConnectSucceeds(i) /\ conns[i].caller = "handleReset"

ResetReconnectFails ==
    \E i \in SessionIds : ConnectFails(i) /\ conns[i].caller = "handleReset"

Sent(c) == \E x \in obs'.cmds : x.cmd = c

\* C27: with a connection available, or after a successful reconnect, reset
\* sends pause and then resetContext and leaves playbackState paused; when the
\* reset timer fires with no connection error, playbackState becomes loading
\* and play is sent; when the reconnect fails, reset changes neither
\* playbackState nor the settings and only shows a notice.
C27_UserReset ==
    [][ /\ ResetProceeds =>
              /\ Sent("pause") /\ Sent("resetContext")
              /\ lastCmd'[session'] = "resetContext"
              /\ playbackState' = "paused"
        /\ (TimerStep("reset") /\ ~connectionError) =>
              /\ playbackState' = "loading"
              /\ Sent("play")
        /\ ResetReconnectFails =>
              /\ playbackState' = playbackState
              /\ config' = config /\ autoField' = autoField
              /\ lastDefined' = lastDefined
              /\ "Cannot reset" \in obs'.toast
              /\ obs'.cmds = {}
      ]_vars

\* a message carrying only a filtered-prompt notification is handled
FilteredStep == "Filtered" \in obs'.toast

\* C28: handling a filtered-prompt notification leaves playbackState,
\* nextStartTime and connectionError unchanged and adds the prompt's text to
\* filteredPrompts; filteredPrompts never loses an element.
C28_FilteringNonFatal ==
    [][ /\ FilteredStep =>
              /\ UNCHANGED << playbackState, nextStartTime, connectionError >>
              /\ Cardinality(filteredPrompts' \ filteredPrompts) = 1
        /\ filteredPrompts \subseteq filteredPrompts'
      ]_vars

\* a second text has just been filtered while audio is playing
C28_Witness ==
    /\ "Filtered" \in obs.toast
    /\ Cardinality(filteredPrompts) = 2
    /\ playbackState = "playing"
    /\ nextStartTime # 0

\* C29: a chunk whose decode fails, and a message whose audioChunks list is
\* empty, schedule nothing, leave playbackState, nextStartTime and
\* connectionError unchanged and show no notice; chunks decoded afterwards
\* are scheduled by the usual rule.
C29_DecodeFailureNonFatal ==
    [][ /\ obs'.dropped # "" =>
              /\ UNCHANGED << playbackState, nextStartTime, connectionError,
                              timers, lastCmd >>
              /\ obs'.sched = obs.sched
              /\ obs'.toast = {} /\ obs'.cmds = {}
        /\ (DecodedStep /\ obs'.dropped = "" /\ obs'.outcome # "underrun") =>
              LET start == IF nextStartTime = 0 THEN now + bufferTime * 1000
                           ELSE nextStartTime
              IN  /\ obs'.sched # << >>
                  /\ obs'.sched[1].start = start
                  /\ nextStartTime' = start + obs'.sched[1].dur
      ]_vars

\* a decode has just failed while audio is playing and another chunk is
\* still being decoded
C29_Witness ==
    /\ obs.dropped = "failed"
    /\ playbackState = "playing"
    /\ nextStartTime # 0
    /\ decoding # {}

\* the first connect(): no connection was opened before
StartupConnect == \A i \in SessionIds : conns[i].status = "unused"

\* C30: connect() is invoked only at start-up or inside a user play or user
\* reset action taken while connectionError is set; no inbound event, timer,
\* throttled dispatch or agent update invokes it.
C30_ConnectOnlyOnUserAction ==
    [][ ConnectIssued =>
            \/ StartupConnect
            \/ /\ obs'.event \in {"handlePlayPause", "handleReset"}
               /\ connectionError
      ]_vars

\* the user's reset has just issued a connect() after an error on the session
C30_Witness ==
    /\ obs.event = "handleReset"
    /\ connectionError
    /\ \E i \in SessionIds :
           conns[i].status = "opening" /\ conns[i].caller = "handleReset"
    /\ \E j \in SessionIds : conns[j].status = "errored"

\* playbackState is loading and play is the last command of a live session
PlayingLive(s) ==
    /\ s.playbackState = "loading"
    /\ s.session # 0
    /\ s.conns[s.session].status = "open"
    /\ s.lastCmd[s.session] = "play"

\* what a user play, or the service accepting a pending connection and
\* sending its setup-complete, makes of s
RecoverySteps(s) ==
    { handlePlayPause(s) :
          x \in IF (s.playbackState \in {"paused", "stopped"} /\ s.connectionError)
                   => HasFreeConn(s)
                THEN {0} ELSE {} }
    \cup { connectResolved(s, i) :
               i \in {j \in SessionIds : s.conns[j].status = "opening"} }
    \cup { onmessage(s, i, Msg(TRUE, "", Absent)) :
               i \in {j \in SessionIds : s.conns[j].status \in {"opening", "open"}
                                         /\ s.connectionError} }

RECURSIVE Recoverable(_, _)
Recoverable(s, n) ==
    \/ PlayingLive(s)
    \/ n > 0 /\ \E t \in RecoverySteps(s) : Recoverable(t, n - 1)

\* C31: from every reachable state some finite sequence of user play
\* actions, with the service accepting the connection and sending
\* setup-complete, brings playbackState to loading with play sent to a live
\* session (as long as the model has a connection left to open).
C31_Controllable ==
    HasFreeConn(Cur) => Recoverable(Cur, MaxRecovery)

\* the pair stored for prompt p: its id as key, its members as value
StoredAs(entry, p) ==
    /\ entry[1] = p.promptId
    /\ { entry[2][j] : j \in 1 .. Len(entry[2]) } =
           { << "promptId", p.promptId >>, << "text", p.text >>,
             << "weight", p.weight >> }

C33_ErrorMeansStopped == connectionError => playbackState = "stopped"

\* C34: whenever playbackState is playing, the scheduling cursor is primed
\* (nextStartTime is not 0).
C34_PlayingIsPrimed == playbackState = "playing" => nextStartTime # 0

\* the socket of connection i, replaced as this.session by a later connect(),
\* delivers its error or close event in this step
ReplacedSessionEvent(i) ==
    /\ session # 0
    /\ i < session
    /\ conns[i].status \in {"open", "errored"}
    /\ conns'[i].status \in {"errored", "closed", "lost"}
    /\ conns'[i].status # conns[i].status

\* C35: once a reconnect has installed a new session, an error or close event
\* delivered by the callbacks of an earlier session changes none of
\* connectionError, playbackState and nextStartTime and sends no command to
\* the new session.
C35_ReplacedSessionIsolated ==
    [][ \A i \in SessionIds :
            ReplacedSessionEvent(i) =>
                /\ connectionError' = connectionError
                /\ playbackState' = playbackState
                /\ nextStartTime' = nextStartTime
                /\ \A c \in obs'.cmds : c.to # session
      ]_vars

\* C36: whenever playbackState is loading or playing the last transport
\* command sent to the current session is play; whenever it is paused the
\* last one is pause, or the resetContext that follows a pause.
C36_StateMatchesCommand ==
    /\ playbackState \in {"loading", "playing"} =>
           (session # 0 /\ lastCmd[session] = "play")
    /\ playbackState = "paused" =>
           (session # 0 /\ lastCmd[session] \in {"pause", "resetContext"})

\* a play that reconnected goes on after connect() resolved: the new session
\* is installed and receives play in this step
ReconnectingPlay ==
    /\ session' # session
    /\ \E c \in obs'.cmds : c.cmd = "play" /\ c.to = session'

\* C37: when a user play reconnects successfully, a setWeightedPrompts
\* dispatch carrying the current prompts is made to the new session as part
\* of that play, also when a throttled prompt call happened less than 200 ms
\* before.
C37_ReplayDispatchesPrompts ==
    [][ ReconnectingPlay =>
          /\ \E c \in obs'.cmds : c.cmd = "setWeightedPrompts" /\ c.to = session'
          /\ sentPrompts' = << AllPrompts(Cur', currentLyriaPrompts') >>
      ]_vars

\* a user reset runs to its end in this step: resetContext is sent, the
\* settings are reset and the reset-mcp-musical-defaults event is handled
ResetCompletes == \E c \in obs'.cmds : c.cmd = "resetContext"

\* C38: after a user reset completes, the SettingsController is in its
\* default state: config equals defaultConfig, density and brightness are
\* auto, and their last defined values are undefined.
C38_ResetRestoresDefaults ==
    [][ ResetCompletes =>
          /\ config' = defaultConfig
          /\ \A f \in AutoFields : autoField'[f]
          /\ \A f \in AutoFields : lastDefined'[f] = Undef
      ]_vars

\* a cycle goes on past the await of one of its agents in this step
CycleGoesOn ==
    \E c \in sim.cycles : c \notin sim'.cycles

\* a cycle hands the musical agent's output to the player in this step
PlayerUpdated ==
    \E c \in sim.cycles :
        /\ c.agent = "musical"
        /\ \E d \in sim'.cycles : d.n = c.n /\ d.agent = "feedback"

\* C39: after stopSimulation and until startSimulation is called again, no
\* agent-driven update reaches the player and every agent status is ready,
\* also when a cycle was awaiting an agent at the time of the stop.
C39_StopIsFinal ==
    [][ (~sim.simulationRunning /\ ~sim'.simulationRunning) =>
            /\ ~PlayerUpdated
            /\ \A k \in AgentKeys : sim'.agents[k] = "ready"
      ]_vars

\* C40: at most one simulation cycle is in progress at any time and at most
\* one simulation interval timer is active at a time.
C40_OneCycleAtATime ==
    /\ Cardinality(sim.cycles) <= 1
    /\ Cardinality(sim.intervals) <= 1

====
